---- MODULE Spec2Model ----
(***************************************************************************)
(* The translation cache and the re-translation loop of the voice          *)
(* messaging client (the Home component), as a state machine.              *)
(*                                                                         *)
(* State: the React state of Home (targetLanguage, messages), its refs     *)
(* (translationCache, currentTargetLang), the last committed render        *)
(* (view), the documents of the Firestore collection (store), and the      *)
(* asynchronous work in flight: fetches started by getTranslatedText       *)
(* during a render (pending) and the running translateAllMessages calls    *)
(* (passes), each with its closure.                                        *)
(***************************************************************************)
EXTENDS Integers, Sequences, FiniteSets, Bags, TLC

VARIABLES
    targetLanguage,     \* useState: the selected target language
    currentTargetLang,  \* useRef: target language seen by the last effect run
    messages,           \* useState: the list of AudioMessage shown
    translationCache,   \* useRef: cacheKey -> translated text
    store,              \* documents of the 'transcriptions' collection, newest first
    pending,            \* bag of fetches started by getTranslatedText
    passes,             \* set of running translateAllMessages invocations
    dirty,              \* a state update is waiting for its render
    view,               \* what the last render put on screen
    eventsLeft,         \* feed snapshots and language selections still to come
    recording,          \* the recorder of Home: its state, refs and uploads
    saving,             \* useFirebaseHook: db, isSaving and the running saves
    handler             \* the request handlers: the call in progress or done

vars == <<targetLanguage, currentTargetLang, messages, translationCache, store,
          pending, passes, dirty, view, eventsLeft, recording, saving, handler>>

\* what the steps of the conversation leave alone
apart == <<recording, saving, handler>>

----------------------------------------------------------------------------
(* Bounds of the model *)

MaxEvents == 3
MaxPending == 4

(* Program constants and input alphabets *)

BATCH_SIZE == 3

TargetLangs == {"en", "ha", "sh"}
SourceLangs == {"en", "ha"}
Texts == {"Hello"}
Outcomes == {"ok", "empty", "fail"}
DefaultLang == "en"

\* the name typed into the name field
UserName == "Ada"

----------------------------------------------------------------------------
(* Values *)

\* An optional string field (translatedText?: string): <<>> is undefined.
Undefined == <<>>
Some(s) == <<s>>

\* JavaScript truthiness of an optional string.
Truthy(opt) == opt # Undefined /\ opt[1] # ""

Min(a, b) == IF a < b THEN a ELSE b

\* What the model answers for (text, source, target): a string that names
\* the target it was produced for and differs from the text.
Translate(text, src, tgt) == text \o "[" \o src \o ">" \o tgt \o "]"

\* value is a translation into tgt
TranslatedFor(value, tgt) ==
    \E t \in Texts, s \in SourceLangs : value = Translate(t, s, tgt)

----------------------------------------------------------------------------
(* The translate request handler and translateText *)

\* POST /api/translate: 400 on a missing field, 500 when the model call
\* throws, otherwise 200 with the trimmed content or ''.
ServiceReply(text, src, tgt, outcome) ==
    IF text = "" \/ src = "" \/ tgt = "" THEN [ok |-> FALSE, translatedText |-> ""]
    ELSE IF outcome = "fail" THEN [ok |-> FALSE, translatedText |-> ""]
    ELSE IF outcome = "empty" THEN [ok |-> TRUE, translatedText |-> ""]
    ELSE [ok |-> TRUE, translatedText |-> Translate(text, src, tgt)]

\* a key built with the target selected when the key is built, not the
\* target of the call
cacheKey_SelectedTarget(text, sourceLang, targetLang) ==
    text \o "-" \o sourceLang \o "-" \o targetLanguage

cacheKey(text, sourceLang, targetLang) ==
    text \o "-" \o sourceLang \o "-" \o targetLang

\* translateText without the cache check: every call goes to the network.
CacheHit_Never(cache, key) == FALSE

\* if (translationCache.current[cacheKey]) return it
CacheHit(cache, key) == key \in DOMAIN cache /\ cache[key] # ""

\* a cache that keeps the value it already holds for a key
CachePut_FirstWins(cache, key, value) ==
    [k \in DOMAIN cache \cup {key} |->
        IF k \in DOMAIN cache THEN cache[k] ELSE value]

\* a cache with room for one entry
CachePut_Evicting(cache, key, value) == [k \in {key} |-> value]

\* translationCache.current[cacheKey] = translatedText
CachePut(cache, key, value) ==
    [k \in DOMAIN cache \cup {key} |-> IF k = key THEN value ELSE cache[k]]

\* translateText without its catch: a failed call rejects the promise.
Settle_Rejecting(text, reply) ==
    IF reply.ok
    THEN [rejected |-> FALSE,
          value |-> IF reply.translatedText # "" THEN reply.translatedText ELSE text,
          stores |-> TRUE]
    ELSE [rejected |-> TRUE, value |-> text, stores |-> FALSE]

\* a translateText whose fallback is the empty string
Settle_BlankFallback(text, reply) ==
    IF reply.ok
    THEN [rejected |-> FALSE,
          value |-> IF reply.translatedText # "" THEN reply.translatedText ELSE text,
          stores |-> TRUE]
    ELSE [rejected |-> FALSE, value |-> "", stores |-> FALSE]

\* The part of translateText after the fetch: how the promise settles and
\* whether the cache is written.
Settle(text, reply) ==
    IF reply.ok
    THEN [rejected |-> FALSE,
          value |-> IF reply.translatedText # "" THEN reply.translatedText ELSE text,
          stores |-> TRUE]
    ELSE [rejected |-> FALSE, value |-> text, stores |-> FALSE]

----------------------------------------------------------------------------
(* Message lists *)

\* processMessages: a Firestore document as an AudioMessage
FromDoc(doc) ==
    [id |-> doc.id,
     senderName |-> IF doc.senderName = "" THEN "Anonymous" ELSE doc.senderName,
     transcription |-> doc.transcription,
     language |-> doc.language, timestamp |-> doc.date,
     translatedText |-> Undefined]

\* updatedMessages.findIndex(m => m.id === id), 0 for -1
FindIndex(list, id) ==
    IF \E j \in DOMAIN list : list[j].id = id
    THEN CHOOSE j \in DOMAIN list :
            list[j].id = id /\ \A h \in DOMAIN list : list[h].id = id => j <= h
    ELSE 0

\* an update that builds the message anew from the id and the translation,
\* without the spread of the old message
SetAtFound_NoSpread(list, id, value) ==
    [j \in DOMAIN list |->
        IF list[j].id = id
        THEN [id |-> id, senderName |-> "", transcription |-> "", language |-> "",
              timestamp |-> 0, translatedText |-> Some(value)]
        ELSE list[j]]

\* updatedMessages[messageIndex] = {...updatedMessages[messageIndex], translatedText}
SetAtFound(list, id, value) ==
    LET j == FindIndex(list, id)
    IN  IF j = 0 THEN list
        ELSE [list EXCEPT ![j] = [@ EXCEPT !.translatedText = Some(value)]]

\* prev.map(msg => msg.id === id ? {...msg, translatedText: translated} : msg)
MapById(list, id, value) ==
    [j \in DOMAIN list |->
        IF list[j].id = id THEN [list[j] EXCEPT !.translatedText = Some(value)]
        ELSE list[j]]

----------------------------------------------------------------------------
(* Rendering: getTranslatedText and the badge *)

\* getTranslatedText reaches translateText for this message
NeedsRequest(m, tgt) ==
    m.transcription # "" /\ m.language # tgt /\ ~Truthy(m.translatedText)

\* getTranslatedText without the test of the message's language
Display_NoLanguageTest(m, tgt) ==
    IF m.transcription = "" THEN m.transcription
    ELSE IF Truthy(m.translatedText) THEN m.translatedText[1]
    ELSE m.transcription

\* the string getTranslatedText returns
Display(m, tgt) ==
    IF m.transcription = "" \/ m.language = tgt THEN m.transcription
    ELSE IF Truthy(m.translatedText) THEN m.translatedText[1]
    ELSE m.transcription

\* message.language !== targetLanguage && message.translatedText
Badge(m, tgt) == m.language # tgt /\ Truthy(m.translatedText)

Row(m, tgt) ==
    [id |-> m.id, language |-> m.language, transcription |-> m.transcription,
     text |-> Display(m, tgt), badge |-> Badge(m, tgt)]

RenderView(msgs, tgt) ==
    [target |-> tgt, rows |-> [j \in DOMAIN msgs |-> Row(msgs[j], tgt)]]

KeyOf(m, tgt) == cacheKey(m.transcription, m.language, tgt)

Request(m, tgt) ==
    [id |-> m.id, text |-> m.transcription, src |-> m.language, tgt |-> tgt]

\* The fetches the render of msgs starts: one for every message that needs a
\* request and misses the cache.
RECURSIVE RenderMisses(_, _, _, _)
RenderMisses(msgs, j, tgt, cache) ==
    IF j > Len(msgs) THEN EmptyBag
    ELSE (IF NeedsRequest(msgs[j], tgt) /\ ~CacheHit(cache, KeyOf(msgs[j], tgt))
          THEN SetToBag({Request(msgs[j], tgt)})
          ELSE EmptyBag) (+) RenderMisses(msgs, j + 1, tgt, cache)

\* The state updates of the requests of that render that hit the cache:
\* their promises are already resolved, so each .then runs right after the
\* render, against the list as it then is.
RECURSIVE RenderHits(_, _, _, _, _)
RenderHits(list, msgs, j, tgt, cache) ==
    IF j > Len(msgs) THEN list
    ELSE IF NeedsRequest(msgs[j], tgt) /\ CacheHit(cache, KeyOf(msgs[j], tgt))
         THEN RenderHits(MapById(list, msgs[j].id, cache[KeyOf(msgs[j], tgt)]),
                         msgs, j + 1, tgt, cache)
         ELSE RenderHits(list, msgs, j + 1, tgt, cache)

----------------------------------------------------------------------------
(* translateAllMessages *)

\* messages.filter(msg => msg.transcription && msg.language !== targetLanguage)
IsCandidate(m, tgt) == m.transcription # "" /\ m.language # tgt
MessagesToTranslate(msgs, tgt) == SelectSeq(msgs, LAMBDA m : IsCandidate(m, tgt))

NewPass(pid, msgs, tgt) ==
    [pid |-> pid, tgt |-> tgt, todo |-> MessagesToTranslate(msgs, tgt),
     updated |-> msgs, i |-> 0, issued |-> {}, settled |-> {}, rejected |-> FALSE]

\* a loop that takes everything that is left as one batch
BatchAt_Unsliced(p) == (p.i + 1) .. Len(p.todo)

\* messagesToTranslate.slice(i, i + BATCH_SIZE), as positions of todo
BatchAt(p) == (p.i + 1) .. Min(p.i + BATCH_SIZE, Len(p.todo))

\* the results of the batch members that hit the cache, written to
\* updatedMessages
RECURSIVE BatchHits(_, _, _, _, _)
BatchHits(updated, p, k, last, cache) ==
    IF k > last THEN updated
    ELSE IF CacheHit(cache, KeyOf(p.todo[k], p.tgt))
         THEN BatchHits(SetAtFound(updated, p.todo[k].id, cache[KeyOf(p.todo[k], p.tgt)]),
                        p, k + 1, last, cache)
         ELSE BatchHits(updated, p, k + 1, last, cache)

\* a loop that calls setMessages only after its last batch: while it waits,
\* the list is what it was
RECURSIVE RunBatches_MergeAtEnd(_, _, _)
RunBatches_MergeAtEnd(p, merged, cache) ==
    IF p.i >= Len(p.todo) THEN [pass |-> p, merged |-> Some(p.updated), finished |-> TRUE]
    ELSE LET batch == BatchAt(p)
             hits  == {k \in batch : CacheHit(cache, KeyOf(p.todo[k], p.tgt))}
             p1    == [p EXCEPT !.issued = @ \cup batch,
                                !.settled = @ \cup hits,
                                !.updated = BatchHits(p.updated, p, p.i + 1,
                                                      p.i + Cardinality(batch), cache)]
         IN  IF hits = batch
             THEN RunBatches_MergeAtEnd([p1 EXCEPT !.i = @ + BATCH_SIZE], merged, cache)
             ELSE [pass |-> p1,
                   merged |-> IF merged = Undefined THEN merged ELSE Some(messages),
                   finished |-> FALSE]

\* The loop of translateAllMessages from the start of the batch at p.i until
\* it has to wait for a fetch or ends. Every member of a batch calls
\* translateText at once; a batch whose members all hit the cache completes
\* without waiting, is merged with setMessages and the next batch starts.
\* merged is the argument of the last setMessages call made, if any.
RECURSIVE RunBatches(_, _, _)
RunBatches(p, merged, cache) ==
    IF p.i >= Len(p.todo) THEN [pass |-> p, merged |-> merged, finished |-> TRUE]
    ELSE LET batch == BatchAt(p)
             hits  == {k \in batch : CacheHit(cache, KeyOf(p.todo[k], p.tgt))}
             p1    == [p EXCEPT !.issued = @ \cup batch,
                                !.settled = @ \cup hits,
                                !.updated = BatchHits(p.updated, p, p.i + 1,
                                                      p.i + Cardinality(batch), cache)]
         IN  IF hits = batch
             THEN RunBatches([p1 EXCEPT !.i = @ + BATCH_SIZE], Some(p1.updated), cache)
             ELSE [pass |-> p1, merged |-> merged, finished |-> FALSE]

----------------------------------------------------------------------------
(* One committed render of Home followed by its effects *)

\* The render of (msgs, tgt): the view, the requests of getTranslatedText,
\* then the effect on [targetLanguage, messages, translateText], which
\* starts translateAllMessages when the target differs from the ref.
Commit(msgs, tgt) ==
    LET afterHits == RenderHits(msgs, msgs, 1, tgt, translationCache)
        starts    == tgt # currentTargetLang
                     /\ Len(MessagesToTranslate(msgs, tgt)) > 0
        run       == RunBatches(NewPass(eventsLeft, msgs, tgt), Undefined,
                                translationCache)
    IN  /\ view' = RenderView(msgs, tgt)
        /\ pending' = pending (+) RenderMisses(msgs, 1, tgt, translationCache)
        /\ BagCardinality(pending') <= MaxPending
        /\ currentTargetLang' = tgt
        /\ IF starts
           THEN /\ passes' = IF run.finished THEN passes ELSE passes \cup {run.pass}
                /\ messages' = IF run.merged # Undefined THEN run.merged[1] ELSE afterHits
                /\ dirty' = (afterHits # msgs \/ run.merged # Undefined)
           ELSE /\ passes' = passes
                /\ messages' = afterHits
                /\ dirty' = (afterHits # msgs)

----------------------------------------------------------------------------
(* Actions *)

\* Home before any recording: nothing recorded, no recorder, no upload
NotRecording ==
    [isRecording |-> FALSE, showRecordingUI |-> FALSE, audioChunks |-> 0,
     mediaRecorderRef |-> FALSE, language |-> DefaultLang, uploads |-> EmptyBag,
     result |-> Undefined]

\* useFirebaseHook before any call; db says whether Firestore was initialized
\* when the module was loaded
NotSaving(db) == [db |-> db, isSaving |-> FALSE, calls |-> EmptyBag,
                  returns |-> 0, returned |-> "null"]

\* no request has reached a handler
NoCall == [route |-> "none", pc |-> "returned"]

InitWith(docs, events) ==
    /\ targetLanguage = DefaultLang
    /\ currentTargetLang = targetLanguage
    /\ messages = <<>>
    /\ translationCache = <<>>
    /\ store = docs
    /\ pending = EmptyBag
    /\ passes = {}
    /\ dirty = FALSE
    /\ view = RenderView(<<>>, targetLanguage)
    /\ eventsLeft = events
    /\ recording = NotRecording
    /\ saving = NotSaving(TRUE)
    /\ handler = NoCall

\* Home is mounted on an empty collection.
Init == InitWith(<<>>, MaxEvents)

\* The documents onSnapshot delivers next: the collection as it is, or with
\* one more document that some client has saved with addDoc since (the query
\* orders by date, newest first).
\* Its date is the server's time, counted in documents.
NewDoc(text, lang) ==
    [id |-> Len(store) + 1, senderName |-> UserName, transcription |-> text,
     language |-> lang, date |-> Len(store) + 1]

\* onSnapshot delivers the unchanged collection to processMessages again
SnapshotSame ==
    /\ saving.db
    /\ eventsLeft > 0
    /\ eventsLeft' = eventsLeft - 1
    /\ messages' = [j \in DOMAIN store |-> FromDoc(store[j])]
    /\ dirty' = TRUE
    /\ UNCHANGED <<targetLanguage, currentTargetLang, translationCache, store,
                   pending, passes, view>>
    /\ UNCHANGED apart

\* a document is added and onSnapshot delivers the collection
SnapshotAdded(text, lang) ==
    /\ saving.db
    /\ eventsLeft > 0
    /\ eventsLeft' = eventsLeft - 1
    /\ store' = <<NewDoc(text, lang)>> \o store
    /\ messages' = [j \in DOMAIN store' |-> FromDoc(store'[j])]
    /\ dirty' = TRUE
    /\ UNCHANGED <<targetLanguage, currentTargetLang, translationCache,
                   pending, passes, view>>
    /\ UNCHANGED apart

\* React renders the pending state updates
Render ==
    /\ dirty
    /\ Commit(messages, targetLanguage)
    /\ UNCHANGED <<targetLanguage, translationCache, store, eventsLeft>>
    /\ UNCHANGED apart

\* onChange of the select: setTargetLanguage(lang), rendered at the end of
\* the event
ChangeLanguage(lang) ==
    /\ eventsLeft > 0
    /\ lang # targetLanguage
    /\ targetLanguage' = lang
    /\ eventsLeft' = eventsLeft - 1
    /\ Commit(messages, lang)
    /\ UNCHANGED <<translationCache, store>>
    /\ UNCHANGED apart

\* A fetch started by getTranslatedText completes: translateText settles and
\* the .then callback updates the list.
RenderFetchDone(r, outcome) ==
    /\ BagIn(r, pending)
    /\ LET s == Settle(r.text, ServiceReply(r.text, r.src, r.tgt, outcome))
       IN  /\ pending' = pending (-) SetToBag({r})
           /\ translationCache' =
                 IF s.stores
                 THEN CachePut(translationCache, cacheKey(r.text, r.src, r.tgt), s.value)
                 ELSE translationCache
           /\ IF s.rejected
              THEN UNCHANGED <<messages, dirty>>
              ELSE /\ messages' = MapById(messages, r.id, s.value)
                   /\ dirty' = TRUE
    /\ UNCHANGED <<targetLanguage, currentTargetLang, store, passes, view,
                   eventsLeft>>
    /\ UNCHANGED apart

\* The fetch of member k of the current batch of pass p completes. When it is
\* the last of its batch, Promise.all resolves, the batch is merged and the
\* loop goes on.
PassFetchDone(p, k, outcome) ==
    /\ p \in passes
    /\ k \in p.issued \ p.settled
    /\ LET m   == p.todo[k]
           s   == Settle(m.transcription,
                         ServiceReply(m.transcription, m.language, p.tgt, outcome))
           cache1 == IF s.stores
                     THEN CachePut(translationCache, KeyOf(m, p.tgt), s.value)
                     ELSE translationCache
           p1  == [p EXCEPT !.settled = @ \cup {k},
                            !.rejected = @ \/ s.rejected,
                            !.updated = IF s.rejected THEN @
                                        ELSE SetAtFound(@, m.id, s.value)]
           run == RunBatches([p1 EXCEPT !.i = @ + BATCH_SIZE], Some(p1.updated), cache1)
       IN  /\ translationCache' = cache1
           /\ IF p1.settled # p1.issued
              THEN /\ passes' = (passes \ {p}) \cup {p1}
                   /\ UNCHANGED <<messages, dirty>>
              ELSE IF p1.rejected
              THEN /\ passes' = passes \ {p}
                   /\ UNCHANGED <<messages, dirty>>
              ELSE /\ passes' = IF run.finished THEN passes \ {p}
                                ELSE (passes \ {p}) \cup {run.pass}
                   /\ messages' = run.merged[1]
                   /\ dirty' = TRUE
    /\ UNCHANGED <<targetLanguage, currentTargetLang, store, pending, view,
                   eventsLeft>>
    /\ UNCHANGED apart

\* One step of the program and its environment; outcomes are the ways a
\* fetch of /api/translate may end.
Step(outcomes) ==
    \/ SnapshotSame
    \/ \E text \in Texts, lang \in SourceLangs : SnapshotAdded(text, lang)
    \/ Render
    \/ \E lang \in TargetLangs : ChangeLanguage(lang)
    \/ \E r \in BagToSet(pending), outcome \in outcomes : RenderFetchDone(r, outcome)
    \/ \E p \in passes : \E k \in p.issued \ p.settled, outcome \in outcomes :
            PassFetchDone(p, k, outcome)

Next == Step(Outcomes)

Spec == Init /\ [][Next]_vars

\* Home after its first snapshot and render, on a collection that held
\* BatchDocs documents in the default language: nothing was requested yet.
\* A pass over it has more than one batch.
BatchDocs == 4
BatchEvents == 1
Preloaded ==
    [j \in 1..BatchDocs |->
        [id |-> BatchDocs + 1 - j, senderName |-> UserName, transcription |-> "Hello",
         language |-> DefaultLang, date |-> BatchDocs + 1 - j]]

InitBatch ==
    /\ targetLanguage = DefaultLang
    /\ currentTargetLang = targetLanguage
    /\ messages = [j \in DOMAIN Preloaded |-> FromDoc(Preloaded[j])]
    /\ translationCache = <<>>
    /\ store = Preloaded
    /\ pending = EmptyBag
    /\ passes = {}
    /\ dirty = FALSE
    /\ view = RenderView(messages, targetLanguage)
    /\ eventsLeft = BatchEvents
    /\ recording = NotRecording
    /\ saving = NotSaving(TRUE)
    /\ handler = NoCall

NextBatch == Step({"ok", "fail"})

SpecBatch == InitBatch /\ [][NextBatch]_vars

----------------------------------------------------------------------------
(* Recording *)

RECURSIVE Latest(_, _)
Latest(list, j) ==
    IF j > Len(list) THEN 0
    ELSE LET rest == Latest(list, j + 1)
         IN  IF list[j].timestamp > rest THEN list[j].timestamp ELSE rest

\* new Date() when a recording stops: later than every document of the
\* collection and every message of the list
Now == 1 + (IF Latest(messages, 1) > Len(store) THEN Latest(messages, 1) ELSE Len(store))

\* The message mediaRecorder.onstop builds, after the upload has succeeded or
\* failed: an id from the clock, a description, no transcription and no
\* language (both read as falsy).
LocalMessage ==
    [id |-> 100 + Now, senderName |-> "", transcription |-> "", language |-> "",
     timestamp |-> Now, translatedText |-> Undefined]

\* the same message built after a save, later than the saved document
LocalMessageAfterSave ==
    [LocalMessage EXCEPT !.id = 101 + Now, !.timestamp = Now + 1]

\* mediaRecorder.onstop after uploadAudio has returned or thrown:
\* setMessages(prev => [...prev, newMessage])
onstop(prev, newMessage) == Append(prev, newMessage)

\* what the other actions leave alone
conversation == <<targetLanguage, currentTargetLang, translationCache, pending,
                  passes, view, handler>>

\* startRecording, from the round button (shown when the recording panel is
\* not, enabled when the name is not empty): a recorder whose onstop holds
\* the name and the target language of this render.
startRecording ==
    /\ eventsLeft > 0
    /\ eventsLeft' = eventsLeft - 1
    /\ ~recording.showRecordingUI
    /\ ~recording.isRecording
    /\ UserName # ""
    /\ recording' = [recording EXCEPT !.mediaRecorderRef = TRUE, !.audioChunks = 0,
                                      !.isRecording = TRUE, !.showRecordingUI = TRUE,
                                      !.language = targetLanguage]
    /\ dirty' = TRUE
    /\ UNCHANGED <<messages, store, saving>>
    /\ UNCHANGED conversation

\* the upload uploadAudio starts for the recorder's audio
Upload == [senderName |-> UserName, language |-> recording.language]

\* The Send button: stopRecording, then setShowRecordingUI(false).  The
\* recorder delivers its data and runs onstop, which starts the upload.
stopRecording ==
    /\ recording.showRecordingUI
    /\ IF recording.mediaRecorderRef /\ recording.isRecording
       THEN recording' = [recording EXCEPT !.isRecording = FALSE,
                                           !.showRecordingUI = FALSE,
                                           !.audioChunks = 1,
                                           !.uploads = @ (+) SetToBag({Upload})]
       ELSE recording' = [recording EXCEPT !.showRecordingUI = FALSE]
    /\ dirty' = TRUE
    /\ UNCHANGED <<messages, store, saving, eventsLeft>>
    /\ UNCHANGED conversation

\* prev.slice(0, -1)
DropLast(prev) == SubSeq(prev, 1, Len(prev) - 1)

\* The Cancel button.  The tracks of the stream are stopped and the recorder
\* is not: whether the browser then ends the recorder and runs its onstop
\* (ends) is the browser's choice.
cancelRecording(ends) ==
    /\ recording.showRecordingUI
    /\ recording.mediaRecorderRef
    /\ recording' = [recording EXCEPT !.audioChunks = 0,
                                      !.isRecording = FALSE,
                                      !.showRecordingUI = FALSE,
                                      !.mediaRecorderRef = FALSE,
                                      !.uploads = IF ends /\ recording.isRecording
                                                  THEN @ (+) SetToBag({Upload})
                                                  ELSE @]
    /\ messages' = DropLast(messages)
    /\ dirty' = TRUE
    /\ UNCHANGED <<store, saving, eventsLeft>>
    /\ UNCHANGED conversation

\* a saveTranscription without the test of db
saveGuard_NoDbTest(db, data) ==
    IF data.senderName = "" \/ data.transcription = "" THEN "null" ELSE "addDoc"

\* The tests of saveTranscription before it sets isSaving (in the browser
\* isClient is true)
saveGuard(db, data) ==
    IF ~db THEN "null"
    ELSE IF data.senderName = "" \/ data.transcription = "" THEN "null"
    ELSE "addDoc"

\* what /api/speech-to-text answers: a transcription, an empty one, or a
\* failure (a status that is not ok, or a fetch that throws)
UploadOutcomes == {"text", "blank", "fail"}

\* uploadAudio after its fetch: on a failure it throws and onstop adds the
\* message; on an empty transcription it returns and onstop adds the message;
\* otherwise it calls saveTranscription, which returns null at once or starts
\* addDoc.
uploadDone(u, text, outcome) ==
    /\ BagIn(u, recording.uploads)
    /\ LET result == IF outcome = "fail" THEN Undefined
                     ELSE IF outcome = "blank" THEN Some("") ELSE Some(text)
           data   == [senderName |-> u.senderName, transcription |-> text,
                      language |-> u.language]
       IN  /\ recording' = [recording EXCEPT !.uploads = @ (-) SetToBag({u}),
                                             !.result = result]
           /\ IF ~Truthy(result)
              THEN /\ messages' = onstop(messages, LocalMessage)
                   /\ UNCHANGED saving
              ELSE IF saveGuard(saving.db, data) = "null"
              THEN /\ saving' = [saving EXCEPT !.returns = @ + 1, !.returned = "null"]
                   /\ messages' = onstop(messages, LocalMessage)
              ELSE /\ saving' = [saving EXCEPT !.isSaving = TRUE,
                                               !.calls = @ (+) SetToBag({data})]
                   /\ UNCHANGED messages
    /\ dirty' = TRUE
    /\ UNCHANGED <<store, eventsLeft>>
    /\ UNCHANGED conversation

\* the document addDoc writes: the data and the server's timestamp
SavedDoc(data) ==
    [id |-> Len(store) + 1, senderName |-> data.senderName,
     transcription |-> data.transcription, language |-> data.language,
     date |-> Len(store) + 1]

\* addDoc ends: saveTranscription returns the id or, from its catch, null;
\* its finally sets isSaving to false; a written document reaches the feed,
\* and onstop adds its message.
addDocDone(data, outcome) ==
    /\ BagIn(data, saving.calls)
    /\ saving' = [saving EXCEPT !.calls = @ (-) SetToBag({data}),
                                !.isSaving = FALSE,
                                !.returns = @ + 1,
                                !.returned = IF outcome = "ok" THEN "id" ELSE "null"]
    /\ IF outcome = "ok"
       THEN /\ store' = <<SavedDoc(data)>> \o store
            /\ messages' = onstop([j \in DOMAIN store' |-> FromDoc(store'[j])],
                                  LocalMessageAfterSave)
       ELSE /\ messages' = onstop(messages, LocalMessage)
            /\ UNCHANGED store
    /\ dirty' = TRUE
    /\ UNCHANGED <<recording, eventsLeft>>
    /\ UNCHANGED conversation

\* Home with a user who records: the steps of the conversation, with every
\* translation succeeding, and recordings that are sent or cancelled.
RecordEvents == 3

\* Firestore may or may not have been initialized when the module was loaded
InitRecord ==
    /\ targetLanguage = DefaultLang
    /\ currentTargetLang = targetLanguage
    /\ messages = <<>>
    /\ translationCache = <<>>
    /\ store = <<>>
    /\ pending = EmptyBag
    /\ passes = {}
    /\ dirty = FALSE
    /\ view = RenderView(<<>>, targetLanguage)
    /\ eventsLeft = RecordEvents
    /\ recording = NotRecording
    /\ saving \in {NotSaving(db) : db \in BOOLEAN}
    /\ handler = NoCall

NextRecord ==
    \/ Step({"ok"})
    \/ startRecording
    \/ stopRecording
    \/ \E ends \in BOOLEAN : cancelRecording(ends)
    \/ \E u \in BagToSet(recording.uploads), text \in Texts, outcome \in UploadOutcomes :
          uploadDone(u, text, outcome)
    \/ \E data \in BagToSet(saving.calls), outcome \in {"ok", "fail"} :
          addDocDone(data, outcome)

SpecRecord == InitRecord /\ [][NextRecord]_vars

----------------------------------------------------------------------------
(* Language codes with a region *)

\* Home mounted on a collection whose documents carry other codes than the
\* three of the select (language is any string of the document): one in
\* "zh-CN", one in "CN" whose text ends in "-zh".
KeyEvents == 2
KeyDocs ==
    <<[id |-> 2, senderName |-> UserName, transcription |-> "Hi-zh",
       language |-> "CN", date |-> 2],
      [id |-> 1, senderName |-> UserName, transcription |-> "Hi",
       language |-> "zh-CN", date |-> 1]>>

InitKey == InitWith(KeyDocs, KeyEvents)

NextKey == Step({"ok"})

SpecKey == InitKey /\ [][NextKey]_vars

----------------------------------------------------------------------------
(* The Home component of src/app/page.tsx: no cache, every document is      *)
(* translated when the feed delivers it. It uses targetLanguage, messages,  *)
(* store, view, dirty and eventsLeft as above and keeps its running         *)
(* asynchronous functions in passes; translationCache, currentTargetLang    *)
(* and pending are not used.                                                *)

PageEvents == 3
PageTexts == {"Hello", ""}

\* the body translateText posts: transcript and targetLanguage, no
\* sourceLanguage (a field the handler reads as undefined, falsy like "")
pageTranslateBody(text, targetLang) ==
    [transcript |-> text, sourceLanguage |-> "", targetLanguage |-> targetLang]

\* translateText of page.tsx: the string its promise resolves with
pageTranslateText(text, targetLang, outcome) ==
    LET body  == pageTranslateBody(text, targetLang)
        reply == ServiceReply(body.transcript, body.sourceLanguage,
                              body.targetLanguage, outcome)
    IN  IF reply.ok /\ reply.translatedText # "" THEN reply.translatedText ELSE text

\* processMessages: the message built for a document before any answer
pageFormat(doc, tgt) ==
    [id |-> doc.id,
     senderName |-> IF doc.senderName = "" THEN "Anonymous" ELSE doc.senderName,
     transcription |-> doc.transcription,
     language |-> doc.language, timestamp |-> doc.date,
     translatedText |-> IF doc.language = tgt THEN Some(doc.transcription)
                        ELSE Undefined]

\* A call of processMessages on docs: translateText is called at once for
\* every document in another language than the target of its closure.
pageProcessMessages(pid, docs, tgt) ==
    [pid |-> pid, kind |-> "feed", tgt |-> tgt,
     list |-> [j \in DOMAIN docs |-> pageFormat(docs[j], tgt)],
     waiting |-> {j \in DOMAIN docs : docs[j].language # tgt},
     i |-> 0, mounted |-> TRUE, changed |-> FALSE]

\* The loop of translateMessages from index job.i on, until it awaits a
\* translateText call or ends.
RECURSIVE pageLoop(_)
pageLoop(job) ==
    IF job.i > Len(job.list) THEN [job |-> job, finished |-> TRUE]
    ELSE LET m == job.list[job.i]
         IN  IF Truthy(m.translatedText) \/ m.transcription = ""
             THEN pageLoop([job EXCEPT !.i = @ + 1])
             ELSE IF m.language = job.tgt
             THEN pageLoop([job EXCEPT
                               !.list[job.i].translatedText = Some(m.transcription),
                               !.changed = TRUE,
                               !.i = @ + 1])
             ELSE [job |-> [job EXCEPT !.waiting = {job.i}], finished |-> FALSE]

\* the effect on [targetLanguage, messages]: a call of translateMessages
pageTranslateMessages(pid, msgs, tgt) ==
    pageLoop([pid |-> pid, kind |-> "effect", tgt |-> tgt, list |-> msgs,
              waiting |-> {}, i |-> 1, mounted |-> TRUE, changed |-> FALSE])

\* message.translatedText || message.transcription, and the badge
pageRow(m, tgt) ==
    [id |-> m.id, language |-> m.language, transcription |-> m.transcription,
     text |-> IF Truthy(m.translatedText) THEN m.translatedText[1]
              ELSE m.transcription,
     badge |-> Truthy(m.translatedText) /\ m.language # tgt]

pageView(msgs, tgt) ==
    [target |-> tgt, rows |-> [j \in DOMAIN msgs |-> pageRow(msgs[j], tgt)]]

\* the cleanup of the translateMessages effect: isMounted = false
pageUnmounted(jobs) ==
    {IF job.kind = "effect" THEN [job EXCEPT !.mounted = FALSE] ELSE job :
        job \in jobs}

\* A committed render of (msgs, tgt) and its effects. subscribed is the call
\* of processMessages made by a subscription of this commit, or <<>>.
pageCommit(msgs, tgt, subscribed) ==
    LET run  == pageTranslateMessages(eventsLeft, msgs, tgt)
        runs == Len(msgs) > 0
        sets == runs /\ run.finished /\ run.job.changed
        feed == IF subscribed = <<>> THEN {} ELSE {subscribed[1]}
        now  == {job \in feed : job.waiting = {}}
    IN  /\ view' = pageView(msgs, tgt)
        /\ passes' = pageUnmounted(passes)
                         \cup (IF runs /\ ~run.finished THEN {run.job} ELSE {})
                         \cup (feed \ now)
        /\ messages' = IF now # {} THEN subscribed[1].list
                       ELSE IF sets THEN run.job.list ELSE msgs
        /\ dirty' = (now # {} \/ sets)

\* onSnapshot delivers the collection with one more document
pageSnapshotAdded(text, lang) ==
    /\ saving.db
    /\ eventsLeft > 0
    /\ eventsLeft' = eventsLeft - 1
    /\ store' = <<NewDoc(text, lang)>> \o store
    /\ LET job == pageProcessMessages(eventsLeft, store', targetLanguage)
       IN  IF job.waiting = {}
           THEN /\ messages' = job.list
                /\ dirty' = TRUE
                /\ UNCHANGED passes
           ELSE /\ passes' = passes \cup {job}
                /\ UNCHANGED <<messages, dirty>>
    /\ UNCHANGED <<targetLanguage, currentTargetLang, translationCache,
                   pending, view>>
    /\ UNCHANGED apart

pageRender ==
    /\ dirty
    /\ pageCommit(messages, targetLanguage, <<>>)
    /\ UNCHANGED <<targetLanguage, currentTargetLang, translationCache, store,
                   pending, eventsLeft>>
    /\ UNCHANGED apart

\* setTargetLanguage(lang): the render, then the effect on
\* [fetchMessages, targetLanguage] subscribes again and the collection is
\* delivered to a processMessages that closes over lang
pageChangeLanguage(lang) ==
    /\ eventsLeft > 0
    /\ lang # targetLanguage
    /\ targetLanguage' = lang
    /\ eventsLeft' = eventsLeft - 1
    /\ pageCommit(messages, lang, <<pageProcessMessages(eventsLeft, store, lang)>>)
    /\ UNCHANGED <<currentTargetLang, translationCache, store, pending>>
    /\ UNCHANGED apart

\* the call of translateText for position k of job resolves
pageFetchDone(job, k, outcome) ==
    /\ job \in passes
    /\ k \in job.waiting
    /\ LET value == pageTranslateText(job.list[k].transcription, job.tgt, outcome)
           wrote == [job EXCEPT !.list[k].translatedText = Some(value),
                                !.waiting = @ \ {k}]
       IN  IF job.kind = "feed"
           THEN IF wrote.waiting = {}
                THEN /\ passes' = passes \ {job}
                     /\ messages' = wrote.list
                     /\ dirty' = TRUE
                ELSE /\ passes' = (passes \ {job}) \cup {wrote}
                     /\ UNCHANGED <<messages, dirty>>
           ELSE LET kept == IF job.mounted THEN [wrote EXCEPT !.changed = TRUE]
                            ELSE [job EXCEPT !.waiting = {}]
                    run  == pageLoop([kept EXCEPT !.i = @ + 1])
                IN  /\ passes' = (passes \ {job})
                                    \cup (IF run.finished THEN {} ELSE {run.job})
                    /\ IF job.mounted
                       THEN /\ messages' = IF run.finished THEN run.job.list
                                           ELSE kept.list
                            /\ dirty' = TRUE
                       ELSE UNCHANGED <<messages, dirty>>
    /\ UNCHANGED <<targetLanguage, currentTargetLang, translationCache, store,
                   pending, view, eventsLeft>>
    /\ UNCHANGED apart

InitPage == InitWith(<<>>, PageEvents)

NextPage ==
    \/ \E text \in PageTexts, lang \in SourceLangs : pageSnapshotAdded(text, lang)
    \/ pageRender
    \/ \E lang \in TargetLangs : pageChangeLanguage(lang)
    \/ \E job \in passes : \E k \in job.waiting, outcome \in {"ok", "fail"} :
            pageFetchDone(job, k, outcome)

SpecPage == InitPage /\ [][NextPage]_vars

----------------------------------------------------------------------------
(* The route handlers of src/app/api: POST of /api/translate and POST of
   /api/speech-to-text.  handler holds the request being answered. *)

ServerTexts == {"Hello", "Hi"}

\* everything outside the handlers
client == <<targetLanguage, currentTargetLang, messages, translationCache, store,
            pending, passes, dirty, view, eventsLeft, recording, saving>>

\* What request.json() can give: it throws, or it resolves to null, or to an
\* object whose three properties are absent, empty or a string.
Bodies ==
    {[json |-> j, transcript |-> Undefined, sourceLanguage |-> Undefined,
      targetLanguage |-> Undefined] : j \in {"throws", "null"}}
    \cup
    [json : {"object"},
     transcript : {Undefined, Some("")} \cup {Some(t) : t \in ServerTexts},
     sourceLanguage : {Undefined, Some("")} \cup {Some(l) : l \in SourceLangs},
     targetLanguage : {Undefined, Some("")} \cup {Some(l) : l \in TargetLangs}]

\* What the handler can do next with the body: the destructuring of lines
\* 12-16 throws on a rejected promise and on null; the test of line 27.
validate(body) ==
    IF body.json # "object" THEN "throws"
    ELSE IF ~Truthy(body.transcript) \/ ~Truthy(body.sourceLanguage)
            \/ ~Truthy(body.targetLanguage)
    THEN "400"
    ELSE "call"

respond(body, called, model, status, text) ==
    [route |-> "translate", pc |-> "returned", body |-> body, modelCalled |-> called,
     model |-> model, status |-> status, translatedText |-> text, responses |-> 1]

\* POST of /api/translate up to the call of the model
translatePOST(body) ==
    /\ handler.pc = "returned"
    /\ handler' =
         CASE validate(body) = "throws" -> respond(body, FALSE, "none", 500, Undefined)
           [] validate(body) = "400"    -> respond(body, FALSE, "none", 400, Undefined)
           [] OTHER -> [route |-> "translate", pc |-> "model", body |-> body,
                        modelCalled |-> TRUE, model |-> "none", status |-> 0,
                        translatedText |-> Undefined, responses |-> 0]
    /\ UNCHANGED client

\* openai.chat.completions.create ends: with a text, with no content, with a
\* reply without choices (the read of choices[0] throws), or by throwing.
ModelOutcomes == {"text", "blank", "nochoices", "throws"}

translateModelDone(outcome) ==
    /\ handler.route = "translate" /\ handler.pc = "model"
    /\ LET b == handler.body
       IN  handler' =
             CASE outcome = "text" ->
                    respond(b, TRUE, outcome, 200,
                            Some(Translate(b.transcript[1], b.sourceLanguage[1],
                                           b.targetLanguage[1])))
               [] outcome = "blank" -> respond(b, TRUE, outcome, 200, Some(""))
               [] OTHER -> respond(b, TRUE, outcome, 500, Undefined)
    /\ UNCHANGED client

\* What request.formData() can give to the speech-to-text handler
Forms ==
    [data : {"throws", "none", "unreadable", "audio"},
     language : {Undefined, Some("en")},
     sender : {Undefined, Some(UserName)}]

OrElse(opt, default) == IF Truthy(opt) THEN opt[1] ELSE default

answer(form, pc, file, status, text) ==
    [route |-> "speech", pc |-> pc, form |-> form, file |-> file, status |-> status,
     transcription |-> text, language |-> OrElse(form.language, "english"),
     sender |-> OrElse(form.sender, "You"), responses |-> IF pc = "returned" THEN 1 ELSE 0]

\* a finally block that leaves the file
finally_Keep(file) == file

\* The finally block of lines 130-136: unlink the file if it exists
finally(file) == IF file THEN FALSE ELSE file

\* POST of /api/speech-to-text up to writeFile: no audio is answered with 400,
\* a formData or arrayBuffer that throws with 500 (outer catch), and mkdirSync
\* may throw inside the inner try.
speechPOST(form, mkdir) ==
    /\ handler.pc = "returned"
    /\ handler' =
         CASE form.data \in {"throws", "unreadable"} ->
                answer(form, "returned", FALSE, 500, Undefined)
           [] form.data = "none" -> answer(form, "returned", FALSE, 400, Undefined)
           [] form.data = "audio" /\ mkdir = "throws" ->
                answer(form, "returned", finally(FALSE), 500, Undefined)
           [] OTHER -> answer(form, "write", FALSE, 0, Undefined)
    /\ UNCHANGED client

\* writeFile ends: the file is written, or it throws having created no file,
\* or it throws having created a part of it
WriteOutcomes == {"written", "refused", "partial"}

speechWriteDone(outcome) ==
    /\ handler.route = "speech" /\ handler.pc = "write"
    /\ handler' =
         CASE outcome = "written" -> answer(handler.form, "transcribe", TRUE, 0, Undefined)
           [] outcome = "refused" ->
                answer(handler.form, "returned", finally(FALSE), 500, Undefined)
           [] OTHER -> answer(handler.form, "returned", finally(TRUE), 500, Undefined)
    /\ UNCHANGED client

\* openai.audio.transcriptions.create ends
speechTranscribeDone(outcome) ==
    /\ handler.route = "speech" /\ handler.pc = "transcribe"
    /\ handler' =
         CASE outcome = "throws" ->
                answer(handler.form, "returned", finally(handler.file), 500, Undefined)
           [] OTHER ->
                answer(handler.form, "returned", finally(handler.file), 200,
                       Some(IF outcome = "blank" THEN "" ELSE "Hello"))
    /\ UNCHANGED client

InitServer == InitWith(<<>>, 0)

NextServer ==
    \/ \E body \in Bodies : translatePOST(body)
    \/ \E outcome \in ModelOutcomes : translateModelDone(outcome)
    \/ \E form \in Forms, mkdir \in {"ok", "throws"} : speechPOST(form, mkdir)
    \/ \E outcome \in WriteOutcomes : speechWriteDone(outcome)
    \/ \E outcome \in {"text", "blank", "throws"} : speechTranscribeDone(outcome)

SpecServer == InitServer /\ [][NextServer]_vars

----------------------------------------------------------------------------
(* Scheduling: React renders every pending update and every fetch ends *)

QuietEvents == 2

InitQuiet == InitWith(<<>>, QuietEvents)

\* a pending update is rendered; some outstanding call of each kind ends
Fairness ==
    /\ WF_vars(Render)
    /\ WF_vars(\E r \in BagToSet(pending), outcome \in Outcomes :
                  RenderFetchDone(r, outcome))
    /\ WF_vars(\E p \in passes : \E k \in p.issued \ p.settled, outcome \in Outcomes :
                  PassFetchDone(p, k, outcome))

SpecQuiet == InitQuiet /\ [][Next]_vars /\ Fairness

\* the same for the Home of src/app/page.tsx
pageFairness ==
    /\ WF_vars(pageRender)
    /\ WF_vars(\E job \in passes : \E k \in job.waiting, outcome \in {"ok", "fail"} :
                  pageFetchDone(job, k, outcome))

SpecPageQuiet == InitPage /\ [][NextPage]_vars /\ pageFairness

----------------------------------------------------------------------------
(* Quantities the properties speak about *)

Ids(list) == [j \in DOMAIN list |-> list[j].id]

\* the fetches of pass p that have not completed
Waiting(p) == p.issued \ p.settled

RECURSIVE PassFetches(_)
PassFetches(S) ==
    IF S = {} THEN 0
    ELSE LET p == CHOOSE q \in S : TRUE
         IN  Cardinality(Waiting(p)) + PassFetches(S \ {p})

\* external translation requests in flight
InFlight == BagCardinality(pending) + PassFetches(passes)

RECURSIVE RenderFetchesFor(_, _, _, _)
RenderFetchesFor(S, text, src, tgt) ==
    IF S = {} THEN 0
    ELSE LET r == CHOOSE q \in S : TRUE
         IN  (IF r.text = text /\ r.src = src /\ r.tgt = tgt
              THEN CopiesIn(r, pending) ELSE 0)
             + RenderFetchesFor(S \ {r}, text, src, tgt)

RECURSIVE PassFetchesFor(_, _, _, _)
PassFetchesFor(S, text, src, tgt) ==
    IF S = {} THEN 0
    ELSE LET p == CHOOSE q \in S : TRUE
         IN  (IF p.tgt = tgt
              THEN Cardinality({k \in Waiting(p) : /\ p.todo[k].transcription = text
                                                   /\ p.todo[k].language = src})
              ELSE 0)
             + PassFetchesFor(S \ {p}, text, src, tgt)

\* requests in flight for the key (text, src, tgt)
InFlightFor(text, src, tgt) ==
    RenderFetchesFor(BagToSet(pending), text, src, tgt)
    + PassFetchesFor(passes, text, src, tgt)

\* the message at position j of the next list was given its translatedText
\* in this step
Written(j) ==
    /\ Truthy(messages'[j].translatedText)
    /\ ~\E h \in DOMAIN messages :
            /\ messages[h].id = messages'[j].id
            /\ messages[h].translatedText = messages'[j].translatedText

\* value is a translation into a language other than tgt
TranslatedForOther(value, tgt) ==
    \E other \in TargetLangs \ {tgt} : TranslatedFor(value, other)

\* the keys of the fetches issued in this step
NewRenderKeys ==
    {cacheKey(r.text, r.src, r.tgt) :
        r \in {q \in BagToSet(pending') : CopiesIn(q, pending') > CopiesIn(q, pending)}}

NewPassKeys ==
    UNION {{KeyOf(p.todo[k], p.tgt) :
              k \in {h \in Waiting(p) :
                        ~\E q \in passes : q.pid = p.pid /\ h \in q.issued}} :
           p \in passes'}

----------------------------------------------------------------------------
(* The claims *)

\* C1 (stale discard): no step writes, as translatedText of a message of the
\* list that is to be shown translated, a translation made for a target
\* language other than the one selected when it is written.
C1_StaleResultsDiscarded ==
    [][\A j \in DOMAIN messages' :
          (Written(j) /\ messages'[j].language # targetLanguage')
              => ~TranslatedForOther(messages'[j].translatedText[1],
                                     targetLanguage')]_vars

\* C2: no row on screen carries the badge "Translated to <target>" over a
\* text that is a translation into another language than that target.
C2_BadgeTextIsForTarget ==
    \A j \in DOMAIN view.rows :
        view.rows[j].badge => ~TranslatedForOther(view.rows[j].text, view.target)

\* C3 (batch bound): at most BATCH_SIZE translation requests are in flight.
C3_BatchBound == InFlight <= BATCH_SIZE

\* C4 (cache hit avoids network): no fetch is issued for a key the cache
\* holds a value for.
C4_CacheHitAvoidsNetwork ==
    [][\A key \in NewRenderKeys \cup NewPassKeys :
          key \notin DOMAIN translationCache']_vars

\* C4 witness: two messages with the same text and languages both carry the
\* cached translation, the second of them without any request in flight.
C4_Witness ==
    /\ Len(messages) = 2
    /\ KeyOf(messages[1], targetLanguage) = KeyOf(messages[2], targetLanguage)
    /\ KeyOf(messages[1], targetLanguage) \in DOMAIN translationCache
    /\ \A j \in 1..2 :
          /\ messages[j].language # targetLanguage
          /\ messages[j].translatedText
                = Some(translationCache[KeyOf(messages[j], targetLanguage)])
    /\ InFlight = 0

\* C5: with one message in the list, at most one request per key
\* (text, source, target) is in flight.
C5_OneRequestPerKey ==
    Len(messages) = 1 =>
        \A t \in Texts, l \in SourceLangs, g \in TargetLangs : InFlightFor(t, l, g) <= 1

C7_ListIsFeedList == Ids(messages) = Ids(store)

\* C8: in a pass a request is issued only when every request of the earlier
\* batches has completed, and together with all requests of its own batch.
BatchOf(k) == (k - 1) \div BATCH_SIZE

C8_BatchesSequential ==
    \A p \in passes : \A k \in p.issued :
        \A h \in 1..Len(p.todo) :
            /\ BatchOf(h) < BatchOf(k) => h \in p.settled
            /\ BatchOf(h) = BatchOf(k) => h \in p.issued

\* C8 witness: the second batch of a pass is in flight.
C8_Witness ==
    \E p \in passes : \E k \in Waiting(p) : BatchOf(k) = 1

\* C9: translateText never rejects, and a pass ends only in the step that
\* completes its last outstanding request, with every candidate merged into
\* the list, whatever failed before.
C9_FailuresAreLocal ==
    /\ [](\A p \in passes : ~p.rejected)
    /\ [][\A p \in passes :
            (~\E q \in passes' : q.pid = p.pid) =>
                /\ Cardinality(Waiting(p)) = 1
                /\ \A k \in 1..Len(p.todo) :
                      \E j \in DOMAIN messages' :
                          /\ messages'[j].id = p.todo[k].id
                          /\ Truthy(messages'[j].translatedText)]_vars

\* C9 witness: a request of the first batch has failed (its message fell
\* back to the transcription) and the second batch has been issued.
C9_Witness ==
    \E p \in passes :
        /\ \E k \in Waiting(p) : BatchOf(k) = 1
        /\ \E h \in p.settled :
              \E j \in DOMAIN p.updated :
                  /\ p.updated[j].id = p.todo[h].id
                  /\ p.updated[j].translatedText = Some(p.todo[h].transcription)

\* C10: a row that shows the bare transcription of a message for whose key
\* the cache holds nothing (no call for it has succeeded) carries no badge.
C10_NoBadgeAfterFailure ==
    \A j \in DOMAIN view.rows :
        LET row == view.rows[j]
        IN  (/\ row.text = row.transcription
             /\ cacheKey(row.transcription, row.language, view.target)
                    \notin DOMAIN translationCache)
                => ~row.badge

\* C11 as claimed: every cache entry for (text, source, target) holds the
\* translation the service returned for that request, never the text itself.
C11_CacheHoldsServiceResults ==
    \A t \in Texts, l \in SourceLangs, g \in TargetLangs :
        cacheKey(t, l, g) \in DOMAIN translationCache
            => translationCache[cacheKey(t, l, g)] = Translate(t, l, g)

\* the strings translateText can store, and the keys it can store them under
CacheValues ==
    Texts \cup {Translate(t, l, g) : t \in Texts, l \in SourceLangs, g \in TargetLangs}
CacheKeys == {cacheKey(t, l, g) : t \in Texts, l \in SourceLangs, g \in TargetLangs}

\* the call for (text, src, tgt) that ends with outcome in this step leaves
\* its value under its key when it stores, and every other entry as it was
StoreLands(text, src, tgt, outcome) ==
    LET s   == Settle(text, ServiceReply(text, src, tgt, outcome))
        key == cacheKey(text, src, tgt)
    IN  IF s.stores
        THEN /\ key \in DOMAIN translationCache'
             /\ translationCache'[key] = s.value
             /\ \A k \in DOMAIN translationCache \ {key} :
                   /\ k \in DOMAIN translationCache'
                   /\ translationCache'[k] = translationCache[k]
        ELSE translationCache' = translationCache

\* storing value under key once more, in the cache this step leaves, changes
\* nothing, and a store of any other value after it leaves that value and
\* no other change
StoreAgain(key, value) ==
    /\ CachePut(translationCache', key, value) = translationCache'
    /\ \A w \in CacheValues :
          LET c2 == CachePut(translationCache', key, w)
          IN  /\ c2[key] = w
              /\ DOMAIN c2 = DOMAIN translationCache'
              /\ \A k \in DOMAIN c2 \ {key} : c2[k] = translationCache'[k]

StoresOnce(text, src, tgt, outcome) ==
    /\ StoreLands(text, src, tgt, outcome)
    /\ Settle(text, ServiceReply(text, src, tgt, outcome)).stores
          => StoreAgain(cacheKey(text, src, tgt),
                        Settle(text, ServiceReply(text, src, tgt, outcome)).value)

\* C13 (idempotent cache, last write wins): every completed call that stores
\* leaves its own value under its key, whatever was there, and no other
\* change; storing that value again would change nothing, and a store of
\* another value after it would leave that other value.
C13_StoreIdempotentLastWins ==
    [][/\ \A r \in BagToSet(pending), o \in Outcomes :
             RenderFetchDone(r, o) => StoresOnce(r.text, r.src, r.tgt, o)
       /\ \A p \in passes : \A k \in Waiting(p), o \in Outcomes :
             PassFetchDone(p, k, o)
                 => StoresOnce(p.todo[k].transcription, p.todo[k].language,
                               p.tgt, o)]_vars

\* C13 witness: two overlapping misses for one key, the first of which has
\* stored the text (an answer without translatedText) while the other is
\* still in flight.
C13_Witness ==
    \E r \in BagToSet(pending) :
        /\ cacheKey(r.text, r.src, r.tgt) \in DOMAIN translationCache
        /\ translationCache[cacheKey(r.text, r.src, r.tgt)] = r.text

\* C14 (no eviction): every key of the cache is found by the lookup, and no
\* step removes a key.
C14_NoEviction ==
    /\ [](\A key \in DOMAIN translationCache : CacheHit(translationCache, key))
    /\ [][DOMAIN translationCache \subseteq DOMAIN translationCache']_vars

\* C14 witness: entries for two keys, one of them for a target that is no
\* longer selected, after the last feed snapshot and language change.
C14_Witness ==
    /\ eventsLeft = 0
    /\ InFlight = 0
    /\ Cardinality(DOMAIN translationCache) >= 2
    /\ \E t \in Texts, l \in SourceLangs, g \in TargetLangs \ {targetLanguage} :
          cacheKey(t, l, g) \in DOMAIN translationCache

\* C15: no cache entry for (text, source, target) holds a translation into
\* another language than target, and a call that completes when its target
\* is no longer selected changes the entry of its own key only.
C15_StoredUnderRequestedTarget ==
    /\ [](\A t \in Texts, l \in SourceLangs, g \in TargetLangs :
            cacheKey(t, l, g) \in DOMAIN translationCache
                => ~TranslatedForOther(translationCache[cacheKey(t, l, g)], g))
    /\ [][/\ \A r \in BagToSet(pending), o \in Outcomes :
                (RenderFetchDone(r, o) /\ r.tgt # targetLanguage)
                    => StoreLands(r.text, r.src, r.tgt, o)
          /\ \A p \in passes : \A k \in Waiting(p), o \in Outcomes :
                (PassFetchDone(p, k, o) /\ p.tgt # targetLanguage)
                    => StoreLands(p.todo[k].transcription, p.todo[k].language,
                                  p.tgt, o)]_vars

\* C15 witness: the only message was requested for a target selected after
\* the default one, the selection changed again before the result came (the
\* request for the new target is still in flight), and the cache holds the
\* translation under the key of the target it was requested for.
C15_Witness ==
    /\ eventsLeft = 0
    /\ Len(messages) = 1
    /\ \E r \in BagToSet(pending) : r.id = messages[1].id /\ r.tgt = targetLanguage
    /\ \E g \in TargetLangs \ {DefaultLang, targetLanguage} :
          /\ KeyOf(messages[1], g) \in DOMAIN translationCache
          /\ translationCache[KeyOf(messages[1], g)]
                = Translate(messages[1].transcription, messages[1].language, g)

\* C16: when nothing is in flight and nothing waits for a render, every
\* message the feed has delivered whose language is not the target is in
\* the list with a translatedText (a translation or the fallback).
C16_NewMessageGetsTranslated ==
    (InFlight = 0 /\ ~dirty) =>
        \A d \in DOMAIN store :
            (store[d].transcription # "" /\ store[d].language # targetLanguage)
                => \E j \in DOMAIN messages :
                      /\ messages[j].id = store[d].id
                      /\ Truthy(messages[j].translatedText)

\* the batches of the pass q' that were complete before this step
DoneBefore(q) ==
    IF \E p \in passes : p.pid = q.pid
    THEN (CHOOSE p \in passes : p.pid = q.pid).i
    ELSE 0

\* C20: in the step that completes a batch of a pass and issues the next
\* one, the list gets the translatedText of every message of the batches
\* completed so far.
C20_MergedBatchByBatch ==
    [][\A q \in passes' :
          q.i > DoneBefore(q) =>
              \A k \in 1..q.i :
                  \E j \in DOMAIN messages' :
                      /\ messages'[j].id = q.todo[k].id
                      /\ Truthy(messages'[j].translatedText)]_vars

\* C20 witness: the first batch of a pass is on screen, translated, while
\* the second batch is in flight.
C20_Witness ==
    /\ ~dirty
    /\ \E p \in passes :
          /\ p.i = BATCH_SIZE
          /\ Waiting(p) # {}
          /\ \A k \in 1..p.i :
                \E j \in DOMAIN view.rows :
                    /\ view.rows[j].id = p.todo[k].id
                    /\ view.rows[j].badge

\* C18: the list is ordered by creation timestamp, newest first.
C18_NewestFirst ==
    \A j \in DOMAIN messages : \A h \in DOMAIN messages :
        j < h => messages[j].timestamp >= messages[h].timestamp

\* C12: what a message got from a lookup or a call is a value made for its
\* own triple: the translation of its transcription from its language into
\* some target, or its transcription.
C12_LookupIsExact ==
    \A j \in DOMAIN messages :
        Truthy(messages[j].translatedText) =>
            \/ messages[j].translatedText[1] = messages[j].transcription
            \/ \E g \in TargetLangs :
                  messages[j].translatedText[1]
                      = Translate(messages[j].transcription, messages[j].language, g)

\* C17: no translation request is in flight for a message with an empty
\* transcription.
C17_EmptyIsNeverRequested ==
    \A job \in passes : \A k \in job.waiting : job.list[k].transcription # ""

\* C19: every request in flight for a message with a transcription and a
\* language has a body the translate handler does not answer with 400.
C19_RequestsAreAccepted ==
    \A job \in passes : \A k \in job.waiting :
        LET m    == job.list[k]
            body == pageTranslateBody(m.transcription, job.tgt)
        IN  (m.transcription # "" /\ m.language # "")
                => ServiceReply(body.transcript, body.sourceLanguage,
                                body.targetLanguage, "ok").ok

\* a message without its translation
Bare(m) == [m EXCEPT !.translatedText = Undefined]

\* the messages a step of translation can start from: those of the list and
\* those of the snapshots of the running passes
Before ==
    {messages[h] : h \in DOMAIN messages}
        \cup UNION {{p.updated[h] : h \in DOMAIN p.updated} : p \in passes}

\* this step is a render, a language selection or a completed call: not a
\* delivery of the feed
Translating == eventsLeft' = eventsLeft \/ targetLanguage' # targetLanguage

\* C21 (frame condition): a step of translation leaves every message of the
\* list equal, but for translatedText, to a message it started from, and a
\* message that stays in the list keeps its id, senderName, transcription,
\* language and timestamp.
C21_OnlyTranslatedTextIsWritten ==
    [][Translating =>
          /\ \A j \in DOMAIN messages' :
                \E m \in Before : Bare(messages'[j]) = Bare(m)
          /\ \A h \in DOMAIN messages : \A j \in DOMAIN messages' :
                messages'[j].id = messages[h].id
                    => Bare(messages'[j]) = Bare(messages[h])]_vars

\* C21 witness: after a pass and the render-triggered calls have completed,
\* a message carries a translation and is otherwise the document the feed
\* delivered.
C21_Witness ==
    /\ passes = {}
    /\ InFlight = 0
    /\ targetLanguage # DefaultLang
    /\ \E j \in DOMAIN messages : \E d \in DOMAIN store :
          /\ Truthy(messages[j].translatedText)
          /\ messages[j].language # targetLanguage
          /\ Bare(messages[j]) = FromDoc(store[d])

\* C22: a message that carries a translatedText and stays in the list still
\* carries one after every step.
C22_TranslatedTextStays ==
    [][\A h \in DOMAIN messages : \A j \in DOMAIN messages' :
          (messages'[j].id = messages[h].id /\ Truthy(messages[h].translatedText))
              => Truthy(messages'[j].translatedText)]_vars

\* C23 (quiescence): when renders happen and calls end, a time comes after
\* which no translation request is in flight and no update waits for a
\* render, so that none is issued again.
C23_Quiescence == <>[](InFlight = 0 /\ ~dirty)

\* C23 witness: requests were issued and have all ended, the last update is
\* rendered and nothing more is to come.
C23_Witness ==
    /\ eventsLeft = 0
    /\ InFlight = 0
    /\ ~dirty
    /\ DOMAIN translationCache # {}
    /\ \E j \in DOMAIN messages :
          messages[j].language # targetLanguage /\ Truthy(messages[j].translatedText)

\* C23 for the Home of src/app/page.tsx, under SpecPageQuiet: a time comes
\* after which no processMessages or translateMessages call is running and
\* no update waits for a render.
C23_PageQuiescence == <>[](passes = {} /\ ~dirty)

\* the request being answered has a property that is absent or empty
FieldMissing ==
    \/ ~Truthy(handler.body.transcript)
    \/ ~Truthy(handler.body.sourceLanguage)
    \/ ~Truthy(handler.body.targetLanguage)

\* C24 (translate handler): a request answered by POST of /api/translate has
\* one response; it is 400 with no model call when transcript, sourceLanguage
\* or targetLanguage is missing or empty; otherwise 500 when the body could
\* not be parsed or the model call threw, and 200 with a translatedText
\* otherwise.
C24_TranslateStatuses ==
    (handler.route = "translate" /\ handler.pc = "returned") =>
        /\ handler.responses = 1
        /\ IF handler.body.json # "throws" /\ FieldMissing
           THEN handler.status = 400 /\ ~handler.modelCalled
           ELSE IF handler.body.json = "throws" \/ handler.model = "throws"
           THEN handler.status = 500
           ELSE handler.status = 200 /\ handler.translatedText # Undefined

\* C27 (temporary file): when the speech-to-text handler has returned, the
\* temporary file of the request does not exist.
C27_NoFileAfterReturn ==
    (handler.route = "speech" /\ handler.pc = "returned") => ~handler.file

\* C27 witness: the handler has written the file, transcribed it and
\* returned 200, and the file is gone.
C27_Witness ==
    /\ handler.route = "speech" /\ handler.pc = "returned"
    /\ handler.form.data = "audio"
    /\ handler.status = 200
    /\ ~handler.file

\* a call of saveTranscription is made in this step
SaveCalled ==
    saving'.returns + BagCardinality(saving'.calls)
        > saving.returns + BagCardinality(saving.calls)

\* a call of saveTranscription returns in this step
SaveReturned == saving'.returns > saving.returns

\* the call that returns in this step has appended the document of data
Appended(data) ==
    /\ BagIn(data, saving.calls)
    /\ saving'.calls = saving.calls (-) SetToBag({data})
    /\ Len(store') = Len(store) + 1
    /\ store'[1].senderName = data.senderName
    /\ store'[1].transcription = data.transcription
    /\ store'[1].language = data.language

FromFeed(m) == \E j \in DOMAIN store : FromDoc(store[j]).id = m.id

\* C26 (cancel): a step that cancels a recording (the recorder reference is
\* cleared) leaves isRecording and showRecordingUI false and no buffered
\* chunk, and every message of the feed that was in the list is still in it,
\* unaltered.
C26_CancelLeavesConversation ==
    [][ (recording.mediaRecorderRef /\ ~recording'.mediaRecorderRef) =>
            /\ ~recording'.isRecording
            /\ ~recording'.showRecordingUI
            /\ recording'.audioChunks = 0
            /\ \A j \in DOMAIN messages :
                  FromFeed(messages[j]) =>
                      \E k \in DOMAIN messages' : messages'[k] = messages[j]
      ]_vars

====
